---- MODULE Spec2Model ----
(***************************************************************************)
(* Model of the TCP chat server (src/src/server.ts, src/src/parser.ts).   *)
(*                                                                         *)
(* Strings are sequences of characters (one-character TLA+ strings), so    *)
(* that trimming, splitting on the first space, upper-casing, validation   *)
(* and sanitisation are computed the way the code computes them.  The     *)
(* bell character 0x07 is written "BEL".  Outbound lines are sequences of  *)
(* the pieces of the template literal that builds them, for instance       *)
(* <<"MSG ">> \o username \o <<" ">> \o sanitized \o <<"\n">>.             *)
(*                                                                         *)
(* Node runs every event handler to completion on one thread, so each      *)
(* handler is one atomic action.                                           *)
(***************************************************************************)
EXTENDS Integers, Sequences, FiniteSets, TLC

\* ------------------------------------------------------------------------
\* Configuration (src/src/types/index.ts, read from the environment)
\* ------------------------------------------------------------------------

\* config.maxConnections (MAX_CONNECTIONS), here a test configuration of 2
maxConnections == 2

\* config.usernameMaxLength (USERNAME_MAX_LENGTH), here 2
usernameMaxLength == 2

\* config.messageMaxLength (MESSAGE_MAX_LENGTH), here 3
messageMaxLength == 3

\* ------------------------------------------------------------------------
\* Bounds of the model
\* ------------------------------------------------------------------------

\* number of distinct remote endpoints (address:port) that may connect
NumEndpoints == 3

SocketIds == 1..NumEndpoints

\* null / undefined where the code holds a string (client.username,
\* command.args[i]): a value that is no string of characters
NULL == <<"null">>

\* undefined where the code holds a socket id (usernames.get on a miss, an
\* omitted excludeSocketId)
NoSocket == 0

\* ------------------------------------------------------------------------
\* JavaScript string primitives
\* ------------------------------------------------------------------------

\* characters String.prototype.trim removes
WhiteSpace == {" ", "\t", "\n", "\r", "\f"}

\* String.prototype.toUpperCase, character by character
UpperOf(c) ==
    CASE c = "a" -> "A" [] c = "b" -> "B" [] c = "c" -> "C" [] c = "d" -> "D"
      [] c = "e" -> "E" [] c = "f" -> "F" [] c = "g" -> "G" [] c = "h" -> "H"
      [] c = "i" -> "I" [] c = "j" -> "J" [] c = "k" -> "K" [] c = "l" -> "L"
      [] c = "m" -> "M" [] c = "n" -> "N" [] c = "o" -> "O" [] c = "p" -> "P"
      [] c = "q" -> "Q" [] c = "r" -> "R" [] c = "s" -> "S" [] c = "t" -> "T"
      [] c = "u" -> "U" [] c = "v" -> "V" [] c = "w" -> "W" [] c = "x" -> "X"
      [] c = "y" -> "Y" [] c = "z" -> "Z" [] OTHER -> c

toUpperCase(s) == [i \in 1..Len(s) |-> UpperOf(s[i])]

\* String.prototype.trim
trim(s) ==
    LET keep == {i \in 1..Len(s) : s[i] \notin WhiteSpace}
    IN  IF keep = {} THEN <<>>
        ELSE LET lo == CHOOSE i \in keep : \A j \in keep : i <= j
                 hi == CHOOSE i \in keep : \A j \in keep : j <= i
             IN  SubSeq(s, lo, hi)

\* String.prototype.indexOf for a one-character needle: 0-based, -1 if absent
indexOf(s, c) ==
    LET at == {i \in 1..Len(s) : s[i] = c}
    IN  IF at = {} THEN -1
        ELSE (CHOOSE i \in at : \A j \in at : i <= j) - 1

\* String.prototype.substring(from, to) and substring(from), 0-based
substring(s, from, to) == SubSeq(s, from + 1, to)

substringFrom(s, from) == SubSeq(s, from + 1, Len(s))

\* ------------------------------------------------------------------------
\* CommandParser (src/src/parser.ts)
\* ------------------------------------------------------------------------

Command(type, args) == [type |-> type, args |-> args]

parseDM(rest) ==
    LET dmSpace == indexOf(rest, " ")
    IN  IF dmSpace = -1 THEN Command("UNKNOWN", <<>>)
        ELSE Command("DM", << substring(rest, 0, dmSpace),
                              trim(substringFrom(rest, dmSpace + 1)) >>)

parse(data) ==
    LET trimmed    == trim(data)
        firstSpace == indexOf(trimmed, " ")
    IN  IF trimmed = <<>> THEN Command("UNKNOWN", <<>>)
        ELSE IF firstSpace = -1
        THEN Command(IF toUpperCase(trimmed) = <<"W", "H", "O">>
                     THEN "WHO" ELSE "UNKNOWN", <<>>)
        ELSE LET command == toUpperCase(substring(trimmed, 0, firstSpace))
                 rest    == trim(substringFrom(trimmed, firstSpace + 1))
             IN  CASE command = <<"L", "O", "G", "I", "N">> ->
                        Command("LOGIN", <<rest>>)
                   [] command = <<"M", "S", "G">> ->
                        Command("MSG", <<rest>>)
                   [] command = <<"D", "M">> -> parseDM(rest)
                   [] OTHER -> Command("UNKNOWN", <<>>)

\* the characters matched by /^[a-zA-Z0-9_-]+$/
UsernameChars ==
    {"a", "b", "c", "d", "e", "f", "g", "h", "i", "j", "k", "l", "m",
     "n", "o", "p", "q", "r", "s", "t", "u", "v", "w", "x", "y", "z",
     "A", "B", "C", "D", "E", "F", "G", "H", "I", "J", "K", "L", "M",
     "N", "O", "P", "Q", "R", "S", "T", "U", "V", "W", "X", "Y", "Z",
     "0", "1", "2", "3", "4", "5", "6", "7", "8", "9", "_", "-"}

isValidUsername(username) ==
    IF Len(username) = 0 THEN FALSE
    ELSE IF Len(username) > usernameMaxLength THEN FALSE
    ELSE \A i \in 1..Len(username) : username[i] \in UsernameChars

isValidMessage(message) ==
    IF Len(message) = 0 \/ Len(trim(message)) = 0 THEN FALSE
    ELSE IF Len(message) > messageMaxLength THEN FALSE
    ELSE TRUE

\* the characters matched by /[\x00-\x08\x0B-\x0C\x0E-\x1F\x7F]/
ControlChars == {"BEL", "\f", "DEL"}

sanitizeMessage(message) == SelectSeq(message, LAMBDA c : c \notin ControlChars)


\* ------------------------------------------------------------------------
\* State
\* ------------------------------------------------------------------------

VARIABLES
    clients,    \* Map socketId -> Client, as the sequence of its entries
                \* [key, username] in insertion order
    usernames,  \* Map username -> socketId, as the sequence of its entries
                \* [key, value] in insertion order
    buffer,     \* per connection: the closure variable `buffer`
    socket,     \* per endpoint: "closed" (not connected), "open" (handlers
                \* installed), "ended" (the server has called socket.end()),
                \* "rejected" (refused as server-full, no handlers)
    server,     \* the process and its listening socket: "listening",
                \* "closing" (server.close() was called: no connection is
                \* accepted any more), "exited" (process.exit was called)
    sent,       \* the socket.write calls of the last handler, in call
                \* order, each <<socketId, line>>
    calls,      \* the write, end and server.close calls of the last
                \* handler, in call order
    ev,         \* the event the last handler ran for: [op, id, chunk, user],
                \* user being the username a 'close' found on its session
    vacated     \* history: the username that the handler before the last
                \* one deleted from the registry, NULL if it deleted none

vars ==
    <<clients, usernames, buffer, socket, server, sent, calls, ev, vacated>>

Event(op, id, chunk, user) ==
    [op |-> op, id |-> id, chunk |-> chunk, user |-> user]

\* the calls a handler makes on the sockets and on the listening server
Write(id, line) == [op |-> "write", id |-> id, line |-> line]
End(id) == [op |-> "end", id |-> id, line |-> <<>>]
ServerClose == [op |-> "close", id |-> NoSocket, line |-> <<>>]

\* the writes w as calls
Writes(w) == [i \in 1..Len(w) |-> Write(w[i][1], w[i][2])]

\* ------------------------------------------------------------------------
\* Map<K, V> of JavaScript: entries keep their insertion order
\* ------------------------------------------------------------------------

MapHas(m, k) == \E i \in 1..Len(m) : m[i].key = k

MapIndex(m, k) == CHOOSE i \in 1..Len(m) : m[i].key = k

MapDelete(m, k) == SelectSeq(m, LAMBDA e : e.key # k)

\* clients.get(socketId), where the key is present
ClientGet(m, k) == m[MapIndex(m, k)]

\* clients.set(socketId, client)
ClientSet(m, k, username) ==
    LET e == [key |-> k, username |-> username]
    IN  IF MapHas(m, k) THEN [m EXCEPT ![MapIndex(m, k)] = e] ELSE Append(m, e)

\* usernames.get(username): the socket id, undefined when absent
UsernameGet(m, k) == IF MapHas(m, k) THEN m[MapIndex(m, k)].value ELSE NoSocket

\* usernames.set(username, socketId)
UsernameSet(m, k, v) ==
    LET e == [key |-> k, value |-> v]
    IN  IF MapHas(m, k) THEN [m EXCEPT ![MapIndex(m, k)] = e] ELSE Append(m, e)

\* truthiness of `client.username`, `targetUsername`, `message`
Truthy(s) == s # NULL /\ s # <<>>

\* ------------------------------------------------------------------------
\* ChatServer handlers (src/src/server.ts) as functions of the registry
\* R = [clients, usernames, sent]
\* ------------------------------------------------------------------------

Registry(c, u, s) == [clients |-> c, usernames |-> u, sent |-> s]

\* socket.write(line) on the socket of socketId
write(R, socketId, line) == [R EXCEPT !.sent = Append(@, <<socketId, line>>)]

ErrLine(errorCode) == <<"ERR ", errorCode, "\n">>

\* sendError writing the line to every session of the registry
sendErrorToAll(R, socketId, errorCode) ==
    [R EXCEPT !.sent =
        @ \o [i \in 1..Len(R.clients) |->
                <<R.clients[i].key, ErrLine(errorCode)>>]]

\* sendError dropping the session it answers
sendErrorAndDrop(R, socketId, errorCode) ==
    [write(R, socketId, ErrLine(errorCode)) EXCEPT
        !.clients = MapDelete(@, socketId)]

sendError(R, socketId, errorCode) == write(R, socketId, ErrLine(errorCode))

RECURSIVE broadcastFrom(_, _, _, _)
broadcastFrom(R, i, message, excludeSocketId) ==
    IF i > Len(R.clients) THEN R
    ELSE LET client == R.clients[i]
         IN  IF ~Truthy(client.username) \/ client.key = excludeSocketId
             THEN broadcastFrom(R, i + 1, message, excludeSocketId)
             ELSE broadcastFrom(write(R, client.key, message), i + 1,
                                message, excludeSocketId)

\* broadcast without its try and catch, a failed write ending the loop
RECURSIVE broadcastStopFrom(_, _, _, _)
broadcastStopFrom(R, i, message, excludeSocketId) ==
    IF i > Len(R.clients) THEN R
    ELSE LET client == R.clients[i]
         IN  IF ~Truthy(client.username) \/ client.key = excludeSocketId
             THEN broadcastStopFrom(R, i + 1, message, excludeSocketId)
             ELSE IF socket[client.key] # "open"
             THEN write(R, client.key, message)
             ELSE broadcastStopFrom(write(R, client.key, message), i + 1,
                                    message, excludeSocketId)

broadcastStopAtFailure(R, message, excludeSocketId) ==
    broadcastStopFrom(R, 1, message, excludeSocketId)

\* excludeSocketId is NoSocket when the caller passes none
broadcast(R, message, excludeSocketId) ==
    broadcastFrom(R, 1, message, excludeSocketId)

\* handleLogin without the usernames.has check
handleLoginNoTakenCheck(R, socketId, username) ==
    LET client == ClientGet(R.clients, socketId)
    IN  IF Truthy(client.username)
        THEN sendError(R, socketId, "already-logged-in")
        ELSE IF ~isValidUsername(username)
        THEN sendError(R, socketId, "invalid-username")
        ELSE LET R1 == [R EXCEPT
                          !.clients = ClientSet(@, socketId, username),
                          !.usernames = UsernameSet(@, username, socketId)]
                 R2 == write(R1, socketId, <<"OK", "\n">>)
             IN  broadcast(R2, <<"INFO ">> \o username \o <<" joined", "\n">>,
                           socketId)

\* handleLogin broadcasting the join notice without excluding the joiner
handleLoginNotifyAll(R, socketId, username) ==
    LET client == ClientGet(R.clients, socketId)
    IN  IF Truthy(client.username)
        THEN sendError(R, socketId, "already-logged-in")
        ELSE IF ~isValidUsername(username)
        THEN sendError(R, socketId, "invalid-username")
        ELSE IF MapHas(R.usernames, username)
        THEN write(R, socketId, ErrLine("username-taken"))
        ELSE LET R1 == [R EXCEPT
                          !.clients = ClientSet(@, socketId, username),
                          !.usernames = UsernameSet(@, username, socketId)]
                 R2 == write(R1, socketId, <<"OK", "\n">>)
             IN  broadcast(R2, <<"INFO ">> \o username \o <<" joined", "\n">>,
                           NoSocket)

\* handleLogin validating the username before the already-logged-in check
handleLoginValidateFirst(R, socketId, username) ==
    LET client == ClientGet(R.clients, socketId)
    IN  IF ~isValidUsername(username)
        THEN sendError(R, socketId, "invalid-username")
        ELSE IF Truthy(client.username)
        THEN sendError(R, socketId, "already-logged-in")
        ELSE IF MapHas(R.usernames, username)
        THEN write(R, socketId, ErrLine("username-taken"))
        ELSE LET R1 == [R EXCEPT
                          !.clients = ClientSet(@, socketId, username),
                          !.usernames = UsernameSet(@, username, socketId)]
                 R2 == write(R1, socketId, <<"OK", "\n">>)
             IN  broadcast(R2, <<"INFO ">> \o username \o <<" joined", "\n">>,
                           socketId)

\* handleLogin without its check of a session that is logged in already
handleLoginRename(R, socketId, username) ==
    IF ~isValidUsername(username)
    THEN sendError(R, socketId, "invalid-username")
    ELSE IF MapHas(R.usernames, username)
    THEN write(R, socketId, ErrLine("username-taken"))
    ELSE LET R1 == [R EXCEPT
                      !.clients = ClientSet(@, socketId, username),
                      !.usernames = UsernameSet(@, username, socketId)]
             R2 == write(R1, socketId, <<"OK", "\n">>)
         IN  broadcast(R2, <<"INFO ">> \o username \o <<" joined", "\n">>,
                       socketId)

handleLogin(R, socketId, username) ==
    LET client == ClientGet(R.clients, socketId)
    IN  IF Truthy(client.username)
        THEN sendError(R, socketId, "already-logged-in")
        ELSE IF ~isValidUsername(username)
        THEN sendError(R, socketId, "invalid-username")
        ELSE IF MapHas(R.usernames, username)
        THEN write(R, socketId, ErrLine("username-taken"))
        ELSE LET R1 == [R EXCEPT
                          !.clients = ClientSet(@, socketId, username),
                          !.usernames = UsernameSet(@, username, socketId)]
                 R2 == write(R1, socketId, <<"OK", "\n">>)
             IN  broadcast(R2, <<"INFO ">> \o username \o <<" joined", "\n">>,
                           socketId)

\* handleMessage broadcasting to everybody but the sender
handleMessageNoEcho(R, socketId, message) ==
    LET client == ClientGet(R.clients, socketId)
    IN  IF ~Truthy(client.username)
        THEN sendError(R, socketId, "not-logged-in")
        ELSE IF ~isValidMessage(message)
        THEN sendError(R, socketId, "invalid-message")
        ELSE LET sanitized == sanitizeMessage(message)
             IN  broadcast(R, <<"MSG ">> \o client.username \o <<" ">>
                                 \o sanitized \o <<"\n">>, socketId)

handleMessage(R, socketId, message) ==
    LET client == ClientGet(R.clients, socketId)
    IN  IF ~Truthy(client.username)
        THEN sendError(R, socketId, "not-logged-in")
        ELSE IF ~isValidMessage(message)
        THEN sendError(R, socketId, "invalid-message")
        ELSE LET sanitized == sanitizeMessage(message)
             IN  broadcast(R, <<"MSG ">> \o client.username \o <<" ">>
                                 \o sanitized \o <<"\n">>, NoSocket)

RECURSIVE whoFrom(_, _, _)
whoFrom(R, socketId, i) ==
    IF i > Len(R.usernames) THEN R
    ELSE whoFrom(write(R, socketId,
                       <<"USER ">> \o R.usernames[i].key \o <<"\n">>),
                 socketId, i + 1)

\* handleWho leaving out the last username of the map
handleWhoOneShort(R, socketId) ==
    LET client == ClientGet(R.clients, socketId)
    IN  IF ~Truthy(client.username)
        THEN sendError(R, socketId, "not-logged-in")
        ELSE [R EXCEPT !.sent =
                @ \o [i \in 1..(Len(R.usernames) - 1) |->
                        <<socketId,
                          <<"USER ">> \o R.usernames[i].key \o <<"\n">>>>]]

handleWho(R, socketId) ==
    LET client == ClientGet(R.clients, socketId)
    IN  IF ~Truthy(client.username)
        THEN sendError(R, socketId, "not-logged-in")
        ELSE whoFrom(R, socketId, 1)

\* handleDirectMessage that also writes the line back to the sender
handleDirectMessageEcho(R, socketId, targetUsername, message) ==
    LET client == ClientGet(R.clients, socketId)
    IN  IF ~Truthy(client.username)
        THEN sendError(R, socketId, "not-logged-in")
        ELSE IF ~Truthy(targetUsername) \/ ~Truthy(message)
        THEN sendError(R, socketId, "invalid-dm-format")
        ELSE LET targetSocketId == UsernameGet(R.usernames, targetUsername)
             IN  IF targetSocketId = NoSocket
                 THEN sendError(R, socketId, "user-not-found")
                 ELSE IF ~MapHas(R.clients, targetSocketId)
                 THEN sendError(R, socketId, "user-not-found")
                 ELSE IF ~isValidMessage(message)
                 THEN sendError(R, socketId, "invalid-message")
                 ELSE LET line == <<"DM ">> \o client.username \o <<" ">>
                                    \o sanitizeMessage(message) \o <<"\n">>
                      IN  write(write(R, targetSocketId, line), socketId, line)

\* handleDirectMessage validating the text before resolving the target
handleDirectMessageValidateFirst(R, socketId, targetUsername, message) ==
    LET client == ClientGet(R.clients, socketId)
    IN  IF ~Truthy(client.username)
        THEN sendError(R, socketId, "not-logged-in")
        ELSE IF ~Truthy(targetUsername) \/ ~Truthy(message)
        THEN sendError(R, socketId, "invalid-dm-format")
        ELSE IF ~isValidMessage(message)
        THEN sendError(R, socketId, "invalid-message")
        ELSE LET targetSocketId == UsernameGet(R.usernames, targetUsername)
             IN  IF targetSocketId = NoSocket
                 THEN sendError(R, socketId, "user-not-found")
                 ELSE IF ~MapHas(R.clients, targetSocketId)
                 THEN sendError(R, socketId, "user-not-found")
                 ELSE write(R, targetSocketId,
                            <<"DM ">> \o client.username \o <<" ">>
                                \o sanitizeMessage(message) \o <<"\n">>)

\* targetUsername and message are NULL when command.args lacks them
handleDirectMessage(R, socketId, targetUsername, message) ==
    LET client == ClientGet(R.clients, socketId)
    IN  IF ~Truthy(client.username)
        THEN sendError(R, socketId, "not-logged-in")
        ELSE IF ~Truthy(targetUsername) \/ ~Truthy(message)
        THEN sendError(R, socketId, "invalid-dm-format")
        ELSE LET targetSocketId == UsernameGet(R.usernames, targetUsername)
             IN  IF targetSocketId = NoSocket
                 THEN sendError(R, socketId, "user-not-found")
                 ELSE IF ~MapHas(R.clients, targetSocketId)
                 THEN sendError(R, socketId, "user-not-found")
                 ELSE IF ~isValidMessage(message)
                 THEN sendError(R, socketId, "invalid-message")
                 ELSE write(R, targetSocketId,
                            <<"DM ">> \o client.username \o <<" ">>
                                \o sanitizeMessage(message) \o <<"\n">>)

\* command.args[i], NULL (undefined) when the array is shorter
Arg(command, i) == IF Len(command.args) >= i THEN command.args[i] ELSE NULL

\* command.args[0] || ''
ArgOrEmpty(command) ==
    IF Truthy(Arg(command, 1)) THEN Arg(command, 1) ELSE <<>>

handleClientMessage(R, socketId, message) ==
    IF ~MapHas(R.clients, socketId) THEN R
    ELSE LET command == parse(message)
         IN  CASE command.type = "LOGIN" ->
                    handleLogin(R, socketId, ArgOrEmpty(command))
               [] command.type = "MSG" ->
                    handleMessage(R, socketId, ArgOrEmpty(command))
               [] command.type = "WHO" -> handleWho(R, socketId)
               [] command.type = "DM" ->
                    handleDirectMessage(R, socketId, Arg(command, 1),
                                        Arg(command, 2))
               [] OTHER -> sendError(R, socketId, "unknown-command")

\* handleDisconnect without usernames.delete
handleDisconnectKeepName(R, socketId) ==
    IF ~MapHas(R.clients, socketId) THEN R
    ELSE LET client == ClientGet(R.clients, socketId)
         IN  LET username == client.username
                 R1 == [R EXCEPT !.clients = MapDelete(@, socketId)]
             IN  IF Truthy(username)
                 THEN broadcast(
                        R1,
                        <<"INFO ">> \o username \o <<" disconnected", "\n">>,
                        NoSocket)
                 ELSE R1

\* handleDisconnect broadcasting before it removes the session
handleDisconnectNotifyFirst(R, socketId) ==
    IF ~MapHas(R.clients, socketId) THEN R
    ELSE LET client == ClientGet(R.clients, socketId)
         IN  LET username == client.username
             IN  IF Truthy(username)
                 THEN LET R1 == broadcast(
                                  R,
                                  <<"INFO ">> \o username
                                      \o <<" disconnected", "\n">>,
                                  NoSocket)
                      IN  [R1 EXCEPT !.clients = MapDelete(@, socketId),
                                     !.usernames = MapDelete(@, username)]
                 ELSE [R EXCEPT !.clients = MapDelete(@, socketId)]

handleDisconnect(R, socketId) ==
    IF ~MapHas(R.clients, socketId) THEN R
    ELSE LET client == ClientGet(R.clients, socketId)
         IN  LET username == client.username
                 R1 == [R EXCEPT !.clients = MapDelete(@, socketId)]
             IN  IF Truthy(username)
                 THEN broadcast(
                        [R1 EXCEPT !.usernames = MapDelete(@, username)],
                        <<"INFO ">> \o username \o <<" disconnected", "\n">>,
                        NoSocket)
                 ELSE R1

\* the loop without its test of line.trim(): blank lines are dispatched
RECURSIVE processLinesNoSkip(_, _)
processLinesNoSkip(S, socketId) ==
    LET newlineIndex == indexOf(S.buffer, "\n")
    IN  IF newlineIndex = -1 THEN S
        ELSE LET line == substring(S.buffer, 0, newlineIndex)
                 rest == substringFrom(S.buffer, newlineIndex + 1)
             IN  processLinesNoSkip(
                   [R |-> handleClientMessage(S.R, socketId, line),
                    buffer |-> rest],
                   socketId)

\* the loop of socket.on('data'): S = [R, buffer]
RECURSIVE processLines(_, _)
processLines(S, socketId) ==
    LET newlineIndex == indexOf(S.buffer, "\n")
    IN  IF newlineIndex = -1 THEN S
        ELSE LET line == substring(S.buffer, 0, newlineIndex)
                 rest == substringFrom(S.buffer, newlineIndex + 1)
             IN  processLines(
                   [R |-> IF trim(line) # <<>>
                          THEN handleClientMessage(S.R, socketId, line)
                          ELSE S.R,
                    buffer |-> rest],
                   socketId)

\* data.toString('utf8'): a chunk is a sequence of bytes. An ASCII byte is
\* written as its character; "C3" "A9" are the two bytes of U+00E9. Bytes
\* that do not form a character inside the chunk decode to U+FFFD.
RECURSIVE toString(_)
toString(data) ==
    IF data = <<>> THEN <<>>
    ELSE IF Head(data) = "C3" /\ Len(data) >= 2 /\ data[2] = "A9"
    THEN <<"U+00E9">> \o toString(SubSeq(data, 3, Len(data)))
    ELSE IF Head(data) \in {"C3", "A9"}
    THEN <<"U+FFFD">> \o toString(Tail(data))
    ELSE <<Head(data)>> \o toString(Tail(data))

\* the handler comparing the buffer with messageMaxLength, not twice it
onDataTightGuard(R, buf, socketId, data) ==
    LET S == processLines([R |-> R, buffer |-> buf \o toString(data)],
                          socketId)
    IN  IF Len(S.buffer) > messageMaxLength
        THEN [R |-> sendError(S.R, socketId, "message-too-long"),
              buffer |-> <<>>]
        ELSE S

\* the handler with `if` in the place of `while`: one line per chunk
onDataOneLine(R, buf, socketId, data) ==
    LET all == buf \o toString(data)
        newlineIndex == indexOf(all, "\n")
        S == IF newlineIndex = -1 THEN [R |-> R, buffer |-> all]
             ELSE [R |-> IF trim(substring(all, 0, newlineIndex)) # <<>>
                         THEN handleClientMessage(
                                R, socketId, substring(all, 0, newlineIndex))
                         ELSE R,
                   buffer |-> substringFrom(all, newlineIndex + 1)]
    IN  IF Len(S.buffer) > messageMaxLength * 2
        THEN [R |-> sendError(S.R, socketId, "message-too-long"),
              buffer |-> <<>>]
        ELSE S

\* the handler taking all it has up to the last newline as one line
onDataWholeChunk(R, buf, socketId, data) ==
    LET all == buf \o toString(data)
        ends == {k \in 1..Len(all) : all[k] = "\n"}
    IN  IF ends = {} THEN [R |-> R, buffer |-> all]
        ELSE LET last == CHOOSE k \in ends : \A j \in ends : j <= k
                 line == SubSeq(all, 1, last - 1)
             IN  [R |-> IF trim(line) # <<>>
                        THEN handleClientMessage(R, socketId, line)
                        ELSE R,
                  buffer |-> SubSeq(all, last + 1, Len(all))]

\* socket.on('data', ...)
onData(R, buf, socketId, data) ==
    LET S == processLines([R |-> R, buffer |-> buf \o toString(data)],
                          socketId)
    IN  IF Len(S.buffer) > messageMaxLength * 2
        THEN [R |-> sendError(S.R, socketId, "message-too-long"),
              buffer |-> <<>>]
        ELSE S

\* ------------------------------------------------------------------------
\* Inbound data: what the clients send
\* ------------------------------------------------------------------------

NameA == <<"a">>
NameB == <<"b">>
NameC == <<"c">>

LoginLine(u) == <<"L", "O", "G", "I", "N", " ">> \o u
MsgLine(t) == <<"M", "S", "G", " ">> \o t
DmLine(u, t) == <<"D", "M", " ">> \o u \o <<" ">> \o t
WhoLine == <<"W", "H", "O">>

\* names sent with LOGIN: two valid ones, one with a character outside the
\* class
LoginArgs == {NameA, NameB, <<"a", "!">>}

TextHi == <<"h", "i">>
TextBel == <<"h", "BEL", "i">>
TextLong == <<"h", "e", "l", "o">>

\* texts sent with MSG and DM: plain, with a control character, too long
Texts == {TextHi, TextBel, TextLong}

\* targets of DM: the two names that log in, one that never does
DmTargets == {NameA, NameB, NameC}

Lines ==
    {LoginLine(u) : u \in LoginArgs}
        \cup {MsgLine(t) : t \in Texts}
        \cup {DmLine(u, TextHi) : u \in DmTargets}
        \cup {DmLine(NameA, TextBel), DmLine(NameA, TextLong)}
        \cup {WhoLine, <<"L", "O", "G", "I", "N">>}

\* the chunks a 'data' event may carry: whole lines
Chunks == {l \o <<"\n">> : l \in Lines}

NameLong == <<"a", "b", "c">>
TextMax == <<"h", "e", "y">>

\* texts sent with MSG at the edges of the validation: plain, with a
\* control character, of exactly messageMaxLength characters, one
\* character longer, and empty
CodecTexts == {TextHi, TextBel, TextMax, TextLong, <<>>}

\* lines at the edges of the validation rules: a name one character too
\* long, a text of exactly messageMaxLength characters and one more, and
\* commands whose argument, target or text is missing
CodecLines ==
    {LoginLine(u) : u \in {NameA, NameB, NameLong, <<>>}}
        \cup {MsgLine(t) : t \in CodecTexts}
        \cup {DmLine(NameA, t) : t \in {TextHi, TextLong, <<>>}}
        \cup {DmLine(<<>>, TextHi), <<"D", "M", " ", "a">>, WhoLine}

CodecChunks == {l \o <<"\n">> : l \in CodecLines}

Oversize == <<"x", "x", "x", "x", "x", "x", "x">>

\* chunks that do not coincide with lines: a line cut in two, a line cut
\* right before its newline, a line cut inside a two-byte character, two
\* lines at once, a line followed by the start of the next, and input
\* without a newline longer than twice messageMaxLength
FramingChunks ==
    {LoginLine(NameA) \o <<"\n">>, WhoLine \o <<"\n">>,
     <<"L", "O", "G">>, <<"I", "N", " ", "a", "\n">>,
     LoginLine(NameA), <<"\n">>,
     MsgLine(<<"C3", "A9">>) \o <<"\n">>,
     MsgLine(<<"C3">>), <<"A9", "\n">>,
     LoginLine(NameA) \o <<"\n">> \o WhoLine \o <<"\n">>,
     WhoLine \o <<"\n">> \o <<"L", "O", "G">>,
     Oversize,
     WhoLine \o <<"\n">> \o Oversize}

\* ------------------------------------------------------------------------
\* Actions: one per event handler
\* ------------------------------------------------------------------------

\* The state of every socket after the calls cs of one handler, in their
\* order. A socket is "open", "ended" once the server has called end() on
\* it (half-closed: the peer can still send), "destroyed" once it has
\* failed ('close' is pending), "rejected" when it was refused, and
\* "closed" when it is gone. A write to a socket the server has ended is a
\* write after end: the stream destroys the socket with that error.
RECURSIVE socketsAfterFrom(_, _, _)
socketsAfterFrom(sock, cs, k) ==
    IF k > Len(cs) THEN sock
    ELSE socketsAfterFrom(
           IF cs[k].op = "write" /\ sock[cs[k].id] = "ended"
           THEN [sock EXCEPT ![cs[k].id] = "destroyed"]
           ELSE IF cs[k].op = "end" /\ sock[cs[k].id] = "open"
           THEN [sock EXCEPT ![cs[k].id] = "ended"]
           ELSE sock,
           cs, k + 1)

socketsAfter(sock, cs) == socketsAfterFrom(sock, cs, 1)

Init ==
    /\ clients = <<>>
    /\ usernames = <<>>
    /\ buffer = [id \in SocketIds |-> <<>>]
    /\ socket = [id \in SocketIds |-> "closed"]
    /\ server = "listening"
    /\ sent = <<>>
    /\ calls = <<>>
    /\ ev = Event("start", NoSocket, <<>>, NULL)
    /\ vacated = NULL

\* handleConnection comparing with > instead of >=
handleConnectionOffByOne(id) ==
    /\ server = "listening"
    /\ socket[id] = "closed"
    /\ ev' = Event("connection", id, <<>>, NULL)
    /\ vacated' = ev.user
    /\ IF Len(clients) > maxConnections
       THEN /\ sent' = << <<id, ErrLine("server-full")>> >>
            /\ calls' = <<Write(id, ErrLine("server-full")), End(id)>>
            /\ socket' = [socket EXCEPT ![id] = "rejected"]
            /\ UNCHANGED <<clients, usernames, buffer>>
       ELSE /\ clients' = ClientSet(clients, id, NULL)
            /\ buffer' = [buffer EXCEPT ![id] = <<>>]
            /\ socket' = [socket EXCEPT ![id] = "open"]
            /\ sent' = <<>>
            /\ calls' = <<>>
            /\ UNCHANGED usernames
    /\ UNCHANGED server

\* handleConnection for a connection from endpoint id
handleConnection(id) ==
    /\ server = "listening"
    /\ socket[id] = "closed"
    /\ ev' = Event("connection", id, <<>>, NULL)
    /\ vacated' = ev.user
    /\ IF Len(clients) >= maxConnections
       THEN /\ sent' = << <<id, ErrLine("server-full")>> >>
            /\ calls' = <<Write(id, ErrLine("server-full")), End(id)>>
            /\ socket' = [socket EXCEPT ![id] = "rejected"]
            /\ UNCHANGED <<clients, usernames, buffer>>
       ELSE /\ clients' = ClientSet(clients, id, NULL)
            /\ buffer' = [buffer EXCEPT ![id] = <<>>]
            /\ socket' = [socket EXCEPT ![id] = "open"]
            /\ sent' = <<>>
            /\ calls' = <<>>
            /\ UNCHANGED usernames
    /\ UNCHANGED server

\* socket.on('data') of connection id receiving chunk data
OnData(id, data) ==
    /\ server # "exited"
    /\ socket[id] \in {"open", "ended"}
    /\ \E S \in {onData(Registry(clients, usernames, <<>>), buffer[id], id,
                        data)} :
           /\ clients' = S.R.clients
           /\ usernames' = S.R.usernames
           /\ sent' = S.R.sent
           /\ calls' = Writes(S.R.sent)
           /\ socket' = socketsAfter(socket, Writes(S.R.sent))
           /\ buffer' = [buffer EXCEPT ![id] = S.buffer]
    /\ ev' = Event("data", id, data, NULL)
    /\ vacated' = ev.user
    /\ UNCHANGED server

\* socket.on('close') of connection id
OnClose(id) ==
    /\ server # "exited"
    /\ socket[id] \in {"open", "ended", "destroyed"}
    /\ \E R \in {handleDisconnect(Registry(clients, usernames, <<>>), id)} :
           /\ clients' = R.clients
           /\ usernames' = R.usernames
           /\ sent' = R.sent
           /\ calls' = Writes(R.sent)
           /\ socket' = [socketsAfter(socket, Writes(R.sent))
                            EXCEPT ![id] = "closed"]
    /\ buffer' = [buffer EXCEPT ![id] = <<>>]
    /\ ev' = Event("close", id, <<>>, ClientGet(clients, id).username)
    /\ vacated' = ev.user
    /\ UNCHANGED server

\* socket.on('timeout') of connection id: socket.end()
OnTimeout(id) ==
    /\ server # "exited"
    /\ socket[id] \in {"open", "ended"}
    /\ socket' = socketsAfter(socket, <<End(id)>>)
    /\ sent' = <<>>
    /\ calls' = <<End(id)>>
    /\ ev' = Event("timeout", id, <<>>, NULL)
    /\ vacated' = ev.user
    /\ UNCHANGED <<clients, usernames, buffer, server>>

\* An I/O failure on the socket of connection id (a reset by the peer, a
\* failed write): the socket is destroyed, socket.on('error') logs it and
\* changes nothing, and the 'close' event follows.
OnError(id) ==
    /\ server # "exited"
    /\ socket[id] \in {"open", "ended"}
    /\ socket' = [socket EXCEPT ![id] = "destroyed"]
    /\ sent' = <<>>
    /\ calls' = <<>>
    /\ ev' = Event("error", id, <<>>, NULL)
    /\ vacated' = ev.user
    /\ UNCHANGED <<clients, usernames, buffer, server>>

\* a refused connection has no listeners: what its peer sends is not read
RejectedData(id, data) ==
    /\ server # "exited"
    /\ socket[id] = "rejected"
    /\ sent' = <<>>
    /\ calls' = <<>>
    /\ ev' = Event("ignored", id, <<>>, NULL)
    /\ vacated' = ev.user
    /\ UNCHANGED <<clients, usernames, buffer, socket, server>>

\* a refused connection goes away without any handler running
RejectedClose(id) ==
    /\ server # "exited"
    /\ socket[id] = "rejected"
    /\ socket' = [socket EXCEPT ![id] = "closed"]
    /\ sent' = <<>>
    /\ calls' = <<>>
    /\ ev' = Event("gone", id, <<>>, NULL)
    /\ vacated' = ev.user
    /\ UNCHANGED <<clients, usernames, buffer, server>>

ShuttingDownLine == <<"INFO server-shutting-down", "\n">>

\* shutdown ending each socket before it writes the notice to it
shutdownCallsEndFirst(cl) ==
    [k \in 1..(2 * Len(cl) + 1) |->
        IF k = 2 * Len(cl) + 1 THEN ServerClose
        ELSE IF k % 2 = 1 THEN End(cl[(k + 1) \div 2].key)
        ELSE Write(cl[k \div 2].key, ShuttingDownLine)]

\* shutdown closing the listening socket before it turns to the sessions
shutdownCallsListenerFirst(cl) ==
    [k \in 1..(2 * Len(cl) + 1) |->
        IF k = 1 THEN ServerClose
        ELSE IF k % 2 = 0 THEN Write(cl[k \div 2].key, ShuttingDownLine)
        ELSE End(cl[(k - 1) \div 2].key)]

\* the calls of shutdown() for the session map cl: for each session in
\* map order write then end, and server.close() after the loop
shutdownCalls(cl) ==
    [k \in 1..(2 * Len(cl) + 1) |->
        IF k = 2 * Len(cl) + 1 THEN ServerClose
        ELSE IF k % 2 = 1 THEN Write(cl[(k + 1) \div 2].key, ShuttingDownLine)
        ELSE End(cl[k \div 2].key)]

\* shutdown(), the handler of SIGTERM and SIGINT
Shutdown ==
    /\ server # "exited"
    /\ calls' = shutdownCalls(clients)
    /\ sent' = [i \in 1..Len(clients) |-> <<clients[i].key, ShuttingDownLine>>]
    /\ socket' = socketsAfter(socket, shutdownCalls(clients))
    /\ server' = "closing"
    /\ ev' = Event("shutdown", NoSocket, <<>>, NULL)
    /\ vacated' = ev.user
    /\ UNCHANGED <<clients, usernames, buffer>>

\* the exit of a shutdown() that has no timer: only the callback of
\* server.close() ends the process
ExitOnlyWhenDrained ==
    /\ server = "closing"
    /\ \A id \in SocketIds : socket[id] = "closed"
    /\ server' = "exited"
    /\ sent' = <<>>
    /\ calls' = <<>>
    /\ ev' = Event("exit", NoSocket, <<"0">>, NULL)
    /\ vacated' = ev.user
    /\ UNCHANGED <<clients, usernames, buffer, socket>>

\* process.exit: with status 0 from the callback of server.close() once
\* no connection is left, with status 1 from the timer of shutdown()
Exit ==
    /\ server = "closing"
    /\ server' = "exited"
    /\ sent' = <<>>
    /\ calls' = <<>>
    /\ ev' = Event("exit", NoSocket,
                   IF \A id \in SocketIds : socket[id] = "closed"
                   THEN <<"0">> ELSE <<"1">>,
                   NULL)
    /\ vacated' = ev.user
    /\ UNCHANGED <<clients, usernames, buffer, socket>>

\* connections, commands and disconnects
Next ==
    \/ \E id \in SocketIds : handleConnection(id)
    \/ \E id \in SocketIds, data \in Chunks : OnData(id, data)
    \/ \E id \in SocketIds : OnClose(id)
    \/ \E id \in SocketIds, data \in Chunks : RejectedData(id, data)
    \/ \E id \in SocketIds : RejectedClose(id)

Spec == Init /\ [][Next]_vars

\* the same with the idle timeout, after which a connection stays in the
\* registry, half-closed by the server, until its 'close' event
NextLifecycle ==
    \/ \E id \in SocketIds : handleConnection(id)
    \/ \E id \in SocketIds, data \in Chunks : OnData(id, data)
    \/ \E id \in SocketIds : OnClose(id)
    \/ \E id \in SocketIds : OnTimeout(id)
    \/ \E id \in SocketIds, data \in Chunks : RejectedData(id, data)
    \/ \E id \in SocketIds : RejectedClose(id)

SpecLifecycle == Init /\ [][NextLifecycle]_vars

\* the lines sent while the server may be shut down
ShutdownChunks ==
    {l \o <<"\n">> : l \in {LoginLine(NameA), LoginLine(NameB),
                             MsgLine(TextHi), WhoLine}}

\* connections, commands, idle timeouts, disconnects, and the termination
\* signal followed by the exit of the process
NextShutdown ==
    \/ \E id \in SocketIds : handleConnection(id)
    \/ \E id \in SocketIds, data \in ShutdownChunks : OnData(id, data)
    \/ \E id \in SocketIds : OnClose(id)
    \/ \E id \in SocketIds : OnTimeout(id)
    \/ \E id \in SocketIds, data \in ShutdownChunks : RejectedData(id, data)
    \/ \E id \in SocketIds : RejectedClose(id)
    \/ Shutdown
    \/ Exit

SpecShutdown == Init /\ [][NextShutdown]_vars

\* The timer that shutdown() starts fires when its five seconds are over,
\* whatever the connections do, and the callback of server.close() runs
\* once the last connection is gone: the exit is not postponed for ever.
SpecShutdownLive == SpecShutdown /\ WF_vars(Exit)

\* connections, disconnects and the lines at the edges of the validation
NextCodec ==
    \/ \E id \in SocketIds : handleConnection(id)
    \/ \E id \in SocketIds, data \in CodecChunks : OnData(id, data)
    \/ \E id \in SocketIds : OnClose(id)
    \/ \E id \in SocketIds, data \in CodecChunks : RejectedData(id, data)
    \/ \E id \in SocketIds : RejectedClose(id)

SpecCodec == Init /\ [][NextCodec]_vars

\* connections, disconnects and chunks that do not coincide with lines
NextFraming ==
    \/ \E id \in SocketIds : handleConnection(id)
    \/ \E id \in SocketIds, data \in FramingChunks : OnData(id, data)
    \/ \E id \in SocketIds : OnClose(id)
    \/ \E id \in SocketIds, data \in FramingChunks : RejectedData(id, data)
    \/ \E id \in SocketIds : RejectedClose(id)

SpecFraming == Init /\ [][NextFraming]_vars

FailureChunks ==
    {l \o <<"\n">> : l \in {LoginLine(NameA), LoginLine(NameB),
                             MsgLine(TextHi)}}

\* connections, commands, disconnects, idle timeouts and I/O failures
NextFailure ==
    \/ \E id \in SocketIds : handleConnection(id)
    \/ \E id \in SocketIds, data \in FailureChunks : OnData(id, data)
    \/ \E id \in SocketIds : OnClose(id)
    \/ \E id \in SocketIds : OnTimeout(id)
    \/ \E id \in SocketIds : OnError(id)
    \/ \E id \in SocketIds, data \in FailureChunks : RejectedData(id, data)
    \/ \E id \in SocketIds : RejectedClose(id)

SpecFailure == Init /\ [][NextFailure]_vars

\* the 'close' event of a socket that has been destroyed
CloseAfterFailure(id) == socket[id] = "destroyed" /\ OnClose(id)

\* Node emits 'close' on every socket it has destroyed, so the 'close'
\* handler of a failed socket runs in the end. When the peer of a socket
\* that is open, or that the server has ended, closes its side is up to
\* the peer: no fairness is assumed for it.
SpecFailureLive ==
    SpecFailure /\ \A id \in SocketIds : WF_vars(CloseAfterFailure(id))

\* lines that are empty or have white space only
BlankLines == {<<>>, <<" ">>, <<"\r">>, <<" ", "\t">>}

\* lines that are not blank and are no LOGIN, MSG, WHO or DM of the
\* protocol: another word, a command word alone, a DM without its text, a
\* WHO with an argument, a tab in the place of the space, a control
\* character alone
MalformedLines ==
    {<<"F", "O", "O">>, <<"L", "O", "G", "I", "N">>, <<"M", "S", "G">>,
     <<"D", "M", " ", "a">>, WhoLine \o <<" ", "x">>,
     <<"M", "S", "G", "\t", "h", "i">>, <<"BEL">>}

BlankChunks ==
    {l \o <<"\n">> : l \in {LoginLine(NameA), LoginLine(NameB)}
                              \cup BlankLines \cup MalformedLines}

\* connections, disconnects, logins, blank lines and lines that are no
\* command
NextBlank ==
    \/ \E id \in SocketIds : handleConnection(id)
    \/ \E id \in SocketIds, data \in BlankChunks : OnData(id, data)
    \/ \E id \in SocketIds : OnClose(id)
    \/ \E id \in SocketIds, data \in BlankChunks : RejectedData(id, data)
    \/ \E id \in SocketIds : RejectedClose(id)

SpecBlank == Init /\ [][NextBlank]_vars

\* a text that is one control character and nothing else
TextBelOnly == <<"BEL">>

SanitizeChunks ==
    {l \o <<"\n">> : l \in {LoginLine(NameA), LoginLine(NameB),
                             MsgLine(TextHi), MsgLine(TextBel),
                             MsgLine(TextBelOnly),
                             DmLine(NameA, TextHi),
                             DmLine(NameA, TextBelOnly)}}

\* connections, disconnects, logins and texts with control characters
NextSanitize ==
    \/ \E id \in SocketIds : handleConnection(id)
    \/ \E id \in SocketIds, data \in SanitizeChunks : OnData(id, data)
    \/ \E id \in SocketIds : OnClose(id)
    \/ \E id \in SocketIds, data \in SanitizeChunks : RejectedData(id, data)
    \/ \E id \in SocketIds : RejectedClose(id)

SpecSanitize == Init /\ [][NextSanitize]_vars

\* chunks of two lines, a carriage return inside and at the end of a line
LineChunks ==
    {LoginLine(NameA) \o <<"\n">>, LoginLine(NameB) \o <<"\n">>,
     WhoLine \o <<"\r", "\n">>,
     MsgLine(<<"h", "\r", "i">>) \o <<"\n">>,
     MsgLine(<<"h">>) \o <<"\n", "i", "\n">>,
     DmLine(NameA, <<"h">>) \o <<"\n", "i", "\n">>}

\* connections, disconnects, the termination signal and chunks whose text
\* has line breaks in it
NextLines ==
    \/ \E id \in SocketIds : handleConnection(id)
    \/ \E id \in SocketIds, data \in LineChunks : OnData(id, data)
    \/ \E id \in SocketIds : OnClose(id)
    \/ \E id \in SocketIds, data \in LineChunks : RejectedData(id, data)
    \/ \E id \in SocketIds : RejectedClose(id)
    \/ Shutdown

SpecLines == Init /\ [][NextLines]_vars

\* ------------------------------------------------------------------------
\* Vocabulary of the properties
\* ------------------------------------------------------------------------

\* the ids of the sessions of registry cl that hold username u
Holders(cl, u) == {cl[i].key : i \in {j \in 1..Len(cl) : cl[j].username = u}}

\* the ids of the sessions of registry cl that have logged in
LoggedInIds(cl) ==
    {cl[i].key : i \in {j \in 1..Len(cl) : cl[j].username \notin {NULL, <<>>}}}

IsLoggedIn(cl, id) == id \in LoggedInIds(cl)

IsUnauthenticated(cl, id) == MapHas(cl, id) /\ id \notin LoggedInIds(cl)

\* the lines written to socket id among the writes w, in order
WrittenTo(w, id) ==
    LET mine == SelectSeq(w, LAMBDA x : x[1] = id)
    IN  [i \in 1..Len(mine) |-> mine[i][2]]

\* the writes w are exactly: line, once, to each socket of ids
ExactlyOnceToEach(w, ids, line) ==
    /\ Len(w) = Cardinality(ids)
    /\ \A id \in ids : WrittenTo(w, id) = <<line>>

\* the step is the 'data' handler of connection id receiving exactly the
\* line `line` and its newline, nothing being buffered before
Receives(id, line) ==
    /\ buffer[id] = <<>>
    /\ ev' = Event("data", id, line \o <<"\n">>, NULL)

\* the last step was the 'data' handler of connection id receiving `line`
Received(id, line) == ev = Event("data", id, line \o <<"\n">>, NULL)

ValidNames == {NameA, NameB}

ValidTexts == {TextHi, TextBel}

\* the text as the protocol delivers it: without its control characters
Body(t) == IF t = TextBel THEN TextHi ELSE t

\* the command word a line carries: its first token, in upper case
Verb(line) ==
    LET t == trim(line)
        spaceIndex == indexOf(t, " ")
    IN  toUpperCase(IF spaceIndex = -1 THEN t ELSE substring(t, 0, spaceIndex))

OkLine == <<"OK", "\n">>
MsgOut(u, t) == <<"MSG ">> \o u \o <<" ">> \o t \o <<"\n">>
DmOut(u, t) == <<"DM ">> \o u \o <<" ">> \o t \o <<"\n">>
JoinedOut(u) == <<"INFO ">> \o u \o <<" joined", "\n">>
DisconnectedOut(u) == <<"INFO ">> \o u \o <<" disconnected", "\n">>
UserOut(u) == <<"USER ">> \o u \o <<"\n">>

\* ------------------------------------------------------------------------
\* C1
\* ------------------------------------------------------------------------

KnownNames ==
    {usernames[i].key : i \in 1..Len(usernames)}
        \cup {clients[i].username : i \in {j \in 1..Len(clients) :
                                            clients[j].username # NULL}}

\* C1: a username is a key of the username map if and only if exactly one
\* session of the session map has it, and the map sends it to that
\* session's id.
InvariantA ==
    \A u \in KnownNames :
        /\ MapHas(usernames, u) <=> Cardinality(Holders(clients, u)) = 1
        /\ MapHas(usernames, u) => Holders(clients, u) = {UsernameGet(usernames, u)}
        /\ Cardinality({i \in 1..Len(usernames) : usernames[i].key = u}) <= 1

\* a logged-in session has disconnected while another one stays logged in
InvariantAWitness ==
    /\ ev.op = "close"
    /\ ev.user = NameA
    /\ Len(usernames) = 1
    /\ sent # <<>>

\* ------------------------------------------------------------------------
\* C2
\* ------------------------------------------------------------------------

\* the registry after connection id has received the line LOGIN u
AfterLogin(R, id, u) ==
    onData(Registry(R.clients, R.usernames, <<>>), <<>>, id,
           LoginLine(u) \o <<"\n">>).R

\* C2: whenever two distinct unauthenticated sessions send LOGIN u for a
\* valid unused u, in either order, the first is answered OK and the second
\* ERR username-taken: exactly one OK and one error.
LoginRace ==
    \A s1 \in SocketIds, s2 \in SocketIds, u \in ValidNames :
        ( /\ s1 # s2
          /\ IsUnauthenticated(clients, s1) /\ buffer[s1] = <<>>
          /\ IsUnauthenticated(clients, s2) /\ buffer[s2] = <<>>
          /\ Holders(clients, u) = {} )
        => LET A == AfterLogin(Registry(clients, usernames, <<>>), s1, u)
               B == AfterLogin(A, s2, u)
           IN  /\ WrittenTo(A.sent, s1) = <<OkLine>>
               /\ WrittenTo(A.sent, s2) = <<>>
               /\ WrittenTo(B.sent, s2) = <<ErrLine("username-taken")>>
               /\ WrittenTo(B.sent, s1) = <<>>
               /\ Holders(B.clients, u) = {s1}

\* the second LOGIN of such a race has been answered
LoginRaceWitness ==
    \E s1 \in SocketIds, s2 \in SocketIds, u \in ValidNames :
        /\ s1 # s2
        /\ Received(s2, LoginLine(u))
        /\ sent = << <<s2, ErrLine("username-taken")>> >>
        /\ Holders(clients, u) = {s1}
        /\ IsUnauthenticated(clients, s2)

\* ------------------------------------------------------------------------
\* C3
\* ------------------------------------------------------------------------

CapacityRespected ==
    /\ Len(clients) <= maxConnections
    /\ \A id \in SocketIds : socket[id] = "rejected" => ~MapHas(clients, id)

RejectedWhenFull ==
    \A id \in SocketIds :
        (ev' = Event("connection", id, <<>>, NULL)
            /\ Len(clients) >= maxConnections)
        => /\ sent' = << <<id, ErrLine("server-full")>> >>
           /\ socket'[id] = "rejected"
           /\ clients' = clients /\ usernames' = usernames

RejectedInputIgnored ==
    \A id \in SocketIds :
        (socket[id] = "rejected" /\ ev'.id = id /\ ev'.op # "connection")
        => /\ sent' = <<>>
           /\ clients' = clients /\ usernames' = usernames

\* C3: the registry never holds more than maxConnections sessions; a
\* connection arriving while it is full is written ERR server-full, is
\* closed, gets no session, and nothing it sends is dispatched.
ServerFull ==
    /\ []CapacityRespected
    /\ [][RejectedWhenFull /\ RejectedInputIgnored]_vars

\* a refused connection has sent data while the registry is full
ServerFullWitness ==
    /\ ev.op = "ignored"
    /\ socket[ev.id] = "rejected"
    /\ Len(clients) = maxConnections

\* ------------------------------------------------------------------------
\* C4
\* ------------------------------------------------------------------------

MsgBroadcast ==
    \A id \in SocketIds, t \in ValidTexts :
        (Receives(id, MsgLine(t)) /\ IsLoggedIn(clients, id))
        => ExactlyOnceToEach(sent', LoggedInIds(clients),
                             MsgOut(ClientGet(clients, id).username, Body(t)))

\* C4: a valid MSG t of a session logged in as u writes MSG u <sanitized t>
\* exactly once to every session logged in at that instant, the sender
\* included, and to no other session.
MsgToAllLoggedIn == [][MsgBroadcast]_vars

\* a MSG with a control character has reached its sender and the other
\* logged-in session
MsgToAllLoggedInWitness ==
    \E s1 \in SocketIds, s2 \in SocketIds :
        /\ s1 # s2
        /\ Received(s1, MsgLine(TextBel))
        /\ Holders(clients, NameA) = {s1}
        /\ IsLoggedIn(clients, s2)
        /\ WrittenTo(sent, s1) = <<MsgOut(NameA, TextHi)>>
        /\ WrittenTo(sent, s2) = <<MsgOut(NameA, TextHi)>>

\* ------------------------------------------------------------------------
\* C5
\* ------------------------------------------------------------------------

LoginSuccess ==
    \A id \in SocketIds, u \in ValidNames :
        ( /\ Receives(id, LoginLine(u))
          /\ IsUnauthenticated(clients, id)
          /\ Holders(clients, u) = {} )
        => /\ Len(sent') >= 1
           /\ sent'[1] = <<id, OkLine>>
           /\ ExactlyOnceToEach(Tail(sent'), LoggedInIds(clients), JoinedOut(u))
           /\ Holders(clients', u) = {id}

\* C5: a LOGIN u of an unauthenticated session with a valid unheld u is
\* answered OK, logs the session in as u, and writes INFO u joined exactly
\* once to every other session logged in at that instant and to nobody else.
LoginJoinNotice == [][LoginSuccess]_vars

\* a session has logged in and the session logged in before it was told
LoginJoinNoticeWitness ==
    \E s1 \in SocketIds, s2 \in SocketIds :
        /\ s1 # s2
        /\ Received(s2, LoginLine(NameB))
        /\ sent = << <<s2, OkLine>>, <<s1, JoinedOut(NameB)>> >>
        /\ Holders(clients, NameA) = {s1}
        /\ Holders(clients, NameB) = {s2}

\* ------------------------------------------------------------------------
\* C6
\* ------------------------------------------------------------------------

\* a DM with valid text t from logged-in id to a registered target
DmToRegistered(id, target, t) ==
    /\ Receives(id, DmLine(target, t))
    /\ IsLoggedIn(clients, id)
    /\ Holders(clients, target) # {}

DmOnlyToTarget ==
    \A id \in SocketIds, target \in DmTargets, t \in ValidTexts :
        DmToRegistered(id, target, t)
        => \E h \in Holders(clients, target) :
              sent' = << <<h, DmOut(ClientGet(clients, id).username, Body(t))>> >>

DmSenderGetsNothing ==
    \A id \in SocketIds, target \in DmTargets, t \in ValidTexts :
        DmToRegistered(id, target, t) => WrittenTo(sent', id) = <<>>

\* C6 as stated: the DM line is written to the target's session only, and
\* nothing at all is written to the sender.
DmNoEcho == [][DmOnlyToTarget /\ DmSenderGetsNothing]_vars

\* C6 as amended: the DM line is the only write and goes to the target's
\* session, so nothing is written to the sender unless the sender is the
\* target.
DmTargetOnly == [][DmOnlyToTarget]_vars

\* a DM with a control character has been delivered to another session
DmTargetOnlyWitness ==
    \E s1 \in SocketIds, s2 \in SocketIds :
        /\ s1 # s2
        /\ Received(s2, DmLine(NameA, TextBel))
        /\ Holders(clients, NameA) = {s1}
        /\ Holders(clients, NameB) = {s2}
        /\ sent = << <<s1, DmOut(NameB, TextHi)>> >>

\* ------------------------------------------------------------------------
\* C7
\* ------------------------------------------------------------------------

DmToAbsent ==
    \A id \in SocketIds, target \in DmTargets, t \in Texts :
        ( /\ Receives(id, DmLine(target, t))
          /\ IsLoggedIn(clients, id)
          /\ Holders(clients, target) = {} )
        => sent' = << <<id, ErrLine("user-not-found")>> >>

\* C7: a DM of a logged-in session to a username no live session holds is
\* answered ERR user-not-found and writes nothing else.
DmUserNotFound == [][DmToAbsent]_vars

\* a DM to the name of a session that has just disconnected was refused
DmUserNotFoundWitness ==
    \E id \in SocketIds :
        /\ Received(id, DmLine(NameA, TextHi))
        /\ vacated = NameA
        /\ IsLoggedIn(clients, id)
        /\ sent = << <<id, ErrLine("user-not-found")>> >>

\* ------------------------------------------------------------------------
\* C8
\* ------------------------------------------------------------------------

DisconnectStep ==
    \A id \in SocketIds :
        (ev'.op = "close" /\ ev'.id = id /\ MapHas(clients, id))
        => LET u == ClientGet(clients, id).username
           IN  IF u \notin {NULL, <<>>}
               THEN /\ ExactlyOnceToEach(sent', LoggedInIds(clients) \ {id},
                                         DisconnectedOut(u))
                    /\ LoggedInIds(clients) \ {id} = LoggedInIds(clients')
               ELSE sent' = <<>>

\* C8: the close of a session logged in as u writes INFO u disconnected
\* exactly once to each session that remains logged in and to nobody else;
\* the close of a session that never logged in writes nothing.
DisconnectNotice == [][DisconnectStep]_vars

\* the remaining logged-in session has been told of a disconnect
DisconnectNoticeWitness ==
    \E s1 \in SocketIds :
        /\ ev.op = "close"
        /\ ev.id # s1
        /\ ev.user = NameB
        /\ Holders(clients, NameA) = {s1}
        /\ sent = << <<s1, DisconnectedOut(NameB)>> >>

\* ------------------------------------------------------------------------
\* C9
\* ------------------------------------------------------------------------

NoStaleName ==
    \A i \in 1..Len(usernames) : Holders(clients, usernames[i].key) # {}

NameFreedByClose ==
    \A id \in SocketIds :
        (ev'.op = "close" /\ ev'.id = id /\ IsLoggedIn(clients, id))
        => /\ ~MapHas(usernames', ClientGet(clients, id).username)
           /\ Holders(clients', ClientGet(clients, id).username) = {}

FreeNameAccepted ==
    \A id \in SocketIds, u \in ValidNames :
        ( /\ Receives(id, LoginLine(u))
          /\ IsUnauthenticated(clients, id)
          /\ Holders(clients, u) = {} )
        => /\ WrittenTo(sent', id) = <<OkLine>>
           /\ UsernameGet(usernames', u) = id

\* C9: once the disconnect of the session holding u has been processed, u
\* is in the username map no more, and a LOGIN u of an unauthenticated
\* session is answered OK whenever no live session holds u; no key of the
\* username map belongs to a session that is gone.
NameReusable ==
    /\ []NoStaleName
    /\ [][NameFreedByClose /\ FreeNameAccepted]_vars

\* right after the holder of a name disconnected, another session took it
NameReusableWitness ==
    \E id \in SocketIds :
        /\ Received(id, LoginLine(NameA))
        /\ vacated = NameA
        /\ WrittenTo(sent, id) = <<OkLine>>
        /\ Holders(clients, NameA) = {id}

\* ------------------------------------------------------------------------
\* C10
\* ------------------------------------------------------------------------

SecondLogin ==
    \A id \in SocketIds, u \in LoginArgs :
        (Receives(id, LoginLine(u)) /\ IsLoggedIn(clients, id))
        => /\ sent' = << <<id, ErrLine("already-logged-in")>> >>
           /\ clients' = clients
           /\ usernames' = usernames

\* C10, for a LOGIN with a non-empty argument: such a LOGIN of a session
\* that is already logged in is answered ERR already-logged-in, writes
\* nothing else and changes neither map.
AlreadyLoggedIn == [][SecondLogin]_vars

\* a logged-in session sent LOGIN with an invalid name
AlreadyLoggedInWitness ==
    \E id \in SocketIds :
        /\ Received(id, LoginLine(<<"a", "!">>))
        /\ IsLoggedIn(clients, id)
        /\ sent = << <<id, ErrLine("already-logged-in")>> >>

SecondLoginAnyArgument ==
    \A id \in SocketIds, u \in {NameA, NameB, NameLong, <<>>} :
        (Receives(id, LoginLine(u)) /\ IsLoggedIn(clients, id))
        => /\ sent' = << <<id, ErrLine("already-logged-in")>> >>
           /\ clients' = clients
           /\ usernames' = usernames

\* C10: a LOGIN of a session that is already logged in is answered ERR
\* already-logged-in whatever its argument (its own name, a free name, a
\* taken name, an invalid name, the empty one included), writes nothing
\* else and changes neither map.
AlreadyLoggedInAlways == [][SecondLoginAnyArgument]_vars

\* ------------------------------------------------------------------------
\* C11
\* ------------------------------------------------------------------------

NotLoggedInReply ==
    \A id \in SocketIds, line \in CodecLines :
        ( /\ Receives(id, line)
          /\ IsUnauthenticated(clients, id)
          /\ Verb(line) \in {<<"M", "S", "G">>, WhoLine, <<"D", "M">>} )
        => /\ sent' = << <<id, ErrLine("not-logged-in")>> >>
           /\ clients' = clients
           /\ usernames' = usernames

\* C11: a session that has not logged in and sends MSG, WHO or DM, with
\* any arguments, is answered ERR not-logged-in and nothing is written to
\* any other session.
NotLoggedInFirst == [][NotLoggedInReply]_vars

\* ------------------------------------------------------------------------
\* C12
\* ------------------------------------------------------------------------

\* the usernames held by the logged-in sessions of registry cl
HeldNames(cl) == {ClientGet(cl, id).username : id \in LoggedInIds(cl)}

WhoReply ==
    \A id \in SocketIds :
        (Receives(id, WhoLine) /\ IsLoggedIn(clients, id))
        => /\ \A k \in 1..Len(sent') : sent'[k][1] = id
           /\ Len(sent') = Cardinality(HeldNames(clients))
           /\ \A u \in HeldNames(clients) :
                 Cardinality({k \in 1..Len(sent') :
                                sent'[k][2] = UserOut(u)}) = 1
           /\ ClientGet(clients, id).username \in HeldNames(clients)
           /\ clients' = clients
           /\ usernames' = usernames

\* C12: a logged-in session that sends WHO is written exactly one
\* 'USER <name>' line for each username held by a logged-in session of the
\* registry at that instant, its own included, no name missing, repeated
\* or stale, and nothing is written to any other session.
WhoListsLoggedIn == [][WhoReply]_vars

\* WHO has been answered with the names of two logged-in sessions
WhoListsLoggedInWitness ==
    \E id \in SocketIds :
        /\ Received(id, WhoLine)
        /\ Cardinality(LoggedInIds(clients)) = 2
        /\ WrittenTo(sent, id) \in {<<UserOut(NameA), UserOut(NameB)>>,
                                     <<UserOut(NameB), UserOut(NameA)>>}

\* ------------------------------------------------------------------------
\* C13
\* ------------------------------------------------------------------------

\* the writes w that carry an ERR line
ErrWrites(w) == {k \in 1..Len(w) : w[k][2][1] = "ERR "}

\* C13: every ERR line the server writes goes to the connection whose
\* command, connection attempt or oversized input the handler was
\* processing, never to another session.
ErrToOriginator ==
    \A k \in ErrWrites(sent) :
        /\ ev.op \in {"data", "connection"}
        /\ sent[k][1] = ev.id

\* input without a newline overflowed the buffer of one session while
\* another session was logged in
ErrToOriginatorWitness ==
    /\ ev.op = "data"
    /\ ev.chunk = Oversize
    /\ sent = << <<ev.id, ErrLine("message-too-long")>> >>
    /\ LoggedInIds(clients) \ {ev.id} # {}

\* ------------------------------------------------------------------------
\* C14
\* ------------------------------------------------------------------------

\* 1 to usernameMaxLength characters, each a letter, a digit, '_' or '-'
WellFormedName(u) ==
    /\ Len(u) \in 1..usernameMaxLength
    /\ \A i \in 1..Len(u) : u[i] \in UsernameChars

NamesWellFormed == \A u \in KnownNames : WellFormedName(u)

InvalidLoginReply ==
    \A id \in SocketIds, u \in {NameA, NameB, NameLong, <<>>} :
        ( /\ Receives(id, LoginLine(u))
          /\ IsUnauthenticated(clients, id)
          /\ ~WellFormedName(u) )
        => /\ sent' = << <<id, ErrLine("invalid-username")>> >>
           /\ clients' = clients
           /\ usernames' = usernames

\* C14: every username held by a session or present in the username map
\* is 1 to usernameMaxLength characters of [A-Za-z0-9_-], and a LOGIN with
\* any other argument, the empty one included, is answered ERR
\* invalid-username and registers nothing.
OnlyValidNames == []NamesWellFormed /\ [][InvalidLoginReply]_vars

\* ------------------------------------------------------------------------
\* C17
\* ------------------------------------------------------------------------

\* the text t without its control characters
Stripped(t) == SelectSeq(t, LAMBDA c : c \notin ControlChars)

\* the text t is empty after trimming or longer than messageMaxLength
Rejected(t) == trim(t) = <<>> \/ Len(t) > messageMaxLength

MsgTextRule ==
    \A id \in SocketIds, t \in CodecTexts :
        (Receives(id, MsgLine(t)) /\ IsLoggedIn(clients, id))
        => IF Rejected(t)
           THEN sent' = << <<id, ErrLine("invalid-message")>> >>
           ELSE ExactlyOnceToEach(
                  sent', LoggedInIds(clients),
                  MsgOut(ClientGet(clients, id).username, Stripped(t)))

DmTextRule ==
    \A id \in SocketIds, t \in {TextHi, TextLong, <<>>} :
        ( /\ Receives(id, DmLine(NameA, t))
          /\ IsLoggedIn(clients, id)
          /\ Holders(clients, NameA) # {} )
        => IF Rejected(t)
           THEN sent' = << <<id, ErrLine("invalid-message")>> >>
           ELSE ExactlyOnceToEach(
                  sent', Holders(clients, NameA),
                  DmOut(ClientGet(clients, id).username, Stripped(t)))

\* C17: a MSG or DM of a logged-in session whose text is empty after
\* trimming or longer than messageMaxLength is answered ERR
\* invalid-message and nothing is delivered; an accepted text is delivered
\* without its control characters, the other characters kept in order.
TextValidated == [][MsgTextRule /\ DmTextRule]_vars

\* ------------------------------------------------------------------------
\* C18
\* ------------------------------------------------------------------------

\* DM lines without a text or without a target
IncompleteDmLines ==
    {<<"D", "M", " ", "a">>, DmLine(NameA, <<>>), DmLine(<<>>, TextHi)}

IncompleteDmReply ==
    \A id \in SocketIds, line \in IncompleteDmLines :
        (Receives(id, line) /\ IsLoggedIn(clients, id))
        => sent' = << <<id, ErrLine("invalid-dm-format")>> >>

\* C18: a DM of a logged-in session that lacks the target username or the
\* text is answered ERR invalid-dm-format.
DmFormatChecked == [][IncompleteDmReply]_vars

\* ------------------------------------------------------------------------
\* C15
\* ------------------------------------------------------------------------

\* the lines that are cut in two, as bytes without their newline
SplitLines == {LoginLine(NameA), WhoLine, MsgLine(<<"C3", "A9">>)}

\* the registry, the writes and the buffer after connection id, its buffer
\* empty, has received first and then second
InTwoChunks(id, first, second) ==
    LET S == onData(Registry(clients, usernames, <<>>), <<>>, id, first)
    IN  onData(S.R, S.buffer, id, second)

\* the same after it has received whole in one chunk
InOneChunk(id, whole) ==
    onData(Registry(clients, usernames, <<>>), <<>>, id, whole)

\* C15: for any command line and any position at which it is cut, a
\* session that receives the line in two chunks ends with the same
\* responses, the same registry and the same buffer as one that receives
\* it in one chunk.
SplitEquivalent ==
    \A id \in SocketIds, line \in SplitLines :
        (MapHas(clients, id) /\ buffer[id] = <<>>)
        => LET whole == line \o <<"\n">>
           IN  \A k \in 1..Len(line) :
                 InTwoChunks(id, SubSeq(whole, 1, k),
                             SubSeq(whole, k + 1, Len(whole)))
                     = InOneChunk(id, whole)

\* ------------------------------------------------------------------------
\* C16
\* ------------------------------------------------------------------------

TooLongLine == ErrLine("message-too-long")

\* the complete lines of the text s, in order, without their newlines
RECURSIVE LinesOf(_)
LinesOf(s) ==
    IF indexOf(s, "\n") = -1 THEN <<>>
    ELSE <<substring(s, 0, indexOf(s, "\n"))>>
             \o LinesOf(substringFrom(s, indexOf(s, "\n") + 1))

\* what is left of the text s after its complete lines
RECURSIVE Pending(_)
Pending(s) ==
    IF indexOf(s, "\n") = -1 THEN s
    ELSE Pending(substringFrom(s, indexOf(s, "\n") + 1))

\* the registry after connection id has dispatched the non-blank lines of
\* ls from the i-th on, one after the other
RECURSIVE InOrder(_, _, _, _)
InOrder(R, id, ls, i) ==
    IF i > Len(ls) THEN R
    ELSE InOrder(IF trim(ls[i]) # <<>>
                 THEN handleClientMessage(R, id, ls[i])
                 ELSE R,
                 id, ls, i + 1)

\* the text connection id has to process when the chunk of the step
\* arrives
Accumulated(id) == buffer[id] \o toString(ev'.chunk)

\* the registry after connection id has dispatched the complete lines of
\* text, starting from the registry of the state
Dispatched(id, text) ==
    InOrder(Registry(clients, usernames, <<>>), id, LinesOf(text), 1)

OverflowStep ==
    ev'.op = "data"
    => \A id \in {ev'.id} :
       \A text \in {Accumulated(id)} :
       \A rest \in {Pending(text)} :
       \A R \in {Dispatched(id, text)} :
         IF Len(rest) > 2 * messageMaxLength
         THEN /\ sent' = Append(R.sent, <<id, TooLongLine>>)
              /\ buffer'[id] = <<>>
              /\ socket' = socket
              /\ clients' = R.clients
              /\ usernames' = R.usernames
              /\ MapHas(clients', id)
              /\ LinesOf(text) = <<>>
                    => clients' = clients /\ usernames' = usernames
         ELSE /\ buffer'[id] = rest
              /\ \A k \in 1..Len(sent') : sent'[k][2] # TooLongLine

\* C16: whenever what is left of a session's buffer after the complete
\* lines of a chunk were extracted is longer than twice messageMaxLength,
\* the session is sent ERR message-too-long, its buffer becomes empty, its
\* socket stays as it was and its registry entry and username are not
\* touched; a shorter rest stays buffered and no such error is sent.
OverflowDiscarded == [][OverflowStep]_vars

\* a logged-in session sent WHO followed by input without a newline that
\* is longer than the limit
OverflowDiscardedWitness ==
    \E id \in SocketIds :
        /\ ev = Event("data", id, WhoLine \o <<"\n">> \o Oversize, NULL)
        /\ Holders(clients, NameA) = {id}
        /\ sent = << <<id, UserOut(NameA)>>, <<id, TooLongLine>> >>
        /\ buffer[id] = <<>>
        /\ socket[id] = "open"

\* ------------------------------------------------------------------------
\* C19
\* ------------------------------------------------------------------------

DispatchStep ==
    ev'.op = "data"
    => \A id \in {ev'.id} :
       \A text \in {Accumulated(id)} :
       \A R \in {Dispatched(id, text)} :
         /\ clients' = R.clients
         /\ usernames' = R.usernames
         /\ sent' \in {R.sent, Append(R.sent, <<id, TooLongLine>>)}
         /\ \A other \in SocketIds \ {id} : buffer'[other] = buffer[other]

\* C19: the 'data' handler of a session dispatches the complete lines it
\* has accumulated one after the other in the order of their newlines, each
\* with its replies, registry changes and broadcasts, and all of them
\* within the handling of the chunk that completed them.
DispatchInOrder == [][DispatchStep]_vars

\* one chunk carried LOGIN a and WHO: the session was logged in first and
\* then told its own name
DispatchInOrderWitness ==
    \E id \in SocketIds :
        /\ Received(id, LoginLine(NameA) \o <<"\n">> \o WhoLine)
        /\ Holders(clients, NameA) = {id}
        /\ sent = << <<id, OkLine>>, <<id, UserOut(NameA)>> >>

\* ------------------------------------------------------------------------
\* C20
\* ------------------------------------------------------------------------

\* the positions of the call c among the calls of the last handler
CallAt(c) == {k \in 1..Len(calls) : calls[k] = c}

InvariantB ==
    \A i \in 1..Len(usernames) :
        /\ MapHas(clients, usernames[i].value)
        /\ ClientGet(clients, usernames[i].value).username = usernames[i].key

\* two names are registered for two sessions, the later connection's first
InvariantBWitness ==
    /\ Len(usernames) = 2
    /\ Len(clients) = 2
    /\ usernames[1].value = clients[2].key
    /\ usernames[2].value = clients[1].key

\* ------------------------------------------------------------------------
\* C25
\* ------------------------------------------------------------------------

RemovedBeforeNotice ==
    ev'.op = "close"
    => \A id \in {ev'.id} :
       \A u \in {ev'.user} :
         Truthy(u)
         => /\ ~MapHas(clients', id)
            /\ ~MapHas(usernames', u)
            /\ WrittenTo(sent', id) = <<>>
            /\ \A k \in 1..Len(sent') :
                 /\ sent'[k][2] = DisconnectedOut(u)
                 /\ MapHas(clients', sent'[k][1])
            /\ sent' = broadcast(Registry(MapDelete(clients, id),
                                          MapDelete(usernames, u), <<>>),
                                 DisconnectedOut(u), NoSocket).sent

\* C25: the close of a logged-in session takes the session out of the
\* session map and its name out of the username map before the notice
\* goes out: the notices are those of a broadcast over the registry
\* without the session, every one goes to a session still registered, and
\* none goes to the session that closed.
NoticeAfterRemoval == [][RemovedBeforeNotice]_vars

\* the session logged in as a has closed and the one logged in as b was
\* told, a being registered no more
NoticeAfterRemovalWitness ==
    \E s1 \in SocketIds :
        /\ ev.op = "close"
        /\ ev.user = NameA
        /\ ~MapHas(usernames, NameA)
        /\ ~MapHas(clients, ev.id)
        /\ Holders(clients, NameB) = {s1}
        /\ sent = << <<s1, DisconnectedOut(NameA)>> >>

\* ------------------------------------------------------------------------
\* C26
\* ------------------------------------------------------------------------

UsernameStep ==
    \A id \in SocketIds :
        /\ (~MapHas(clients, id) /\ MapHas(clients', id))
           => /\ ev'.op = "connection"
              /\ ClientGet(clients', id).username = NULL
        /\ (MapHas(clients, id) /\ MapHas(clients', id))
           => \A before \in {ClientGet(clients, id).username} :
              \A after \in {ClientGet(clients', id).username} :
                /\ before # NULL => after = before
                /\ (before = NULL /\ after # NULL)
                   => /\ ev'.op = "data"
                      /\ ev'.id = id
                      /\ sent' # <<>>
                      /\ sent'[1] = <<id, OkLine>>
                      /\ isValidUsername(after)
                /\ (ev'.op = "data" /\ <<id, OkLine>> \notin
                        {sent'[k] : k \in 1..Len(sent')})
                   => after = before

\* C26: a session is admitted with no username; its username is set only
\* by the step in which its own LOGIN is answered OK, and a username that
\* is set stays as it is for as long as the session is in the session map.
UsernameSetOnce == [][UsernameStep]_vars

\* a session logged in as a has sent LOGIN b and is still a
UsernameSetOnceWitness ==
    \E id \in SocketIds :
        /\ Received(id, LoginLine(NameB))
        /\ MapHas(clients, id)
        /\ ClientGet(clients, id).username = NameA
        /\ ~MapHas(usernames, NameB)
        /\ sent = << <<id, ErrLine("already-logged-in")>> >>

\* ------------------------------------------------------------------------
\* C29
\* ------------------------------------------------------------------------

\* the handler of the step wrote OK: a LOGIN succeeded
WroteOk(w) == \E k \in 1..Len(w) : w[k][2] = OkLine

RegistryFrame ==
    /\ (clients' # clients \/ usernames' # usernames)
       => \/ ev'.op \in {"connection", "close"}
          \/ ev'.op = "data" /\ WroteOk(sent')
    /\ (ev'.op = "data" /\ ~WroteOk(sent'))
       => /\ clients' = clients
          /\ usernames' = usernames
          /\ socket[ev'.id] = "open" => socket'[ev'.id] = "open"
          /\ \A k \in 1..Len(calls') : calls'[k].op = "write"

\* C29: the session map and the username map change only in the admission
\* of a connection, in a LOGIN answered OK and in a close; a line that is
\* answered with ERR, and a MSG, WHO or DM that succeeds, leaves both maps
\* and every session's username as they were, calls end() on no socket
\* and leaves the sender's socket open.
RegistryChangesOnly == [][RegistryFrame]_vars

\* an over-long MSG of a logged-in session was refused with both sessions
\* still registered and the sender's socket open
RegistryChangesOnlyWitness ==
    \E id \in SocketIds :
        /\ Received(id, MsgLine(TextLong))
        /\ sent = << <<id, ErrLine("invalid-message")>> >>
        /\ Len(clients) = 2
        /\ Len(usernames) = 2
        /\ IsLoggedIn(clients, id)
        /\ socket[id] = "open"

\* ------------------------------------------------------------------------
\* C27
\* ------------------------------------------------------------------------

\* the single reply the documented order of the DM checks gives the DM of
\* session id to target with text t
DmExpected(id, target, t) ==
    IF ~IsLoggedIn(clients, id)
    THEN << <<id, ErrLine("not-logged-in")>> >>
    ELSE IF target = <<>> \/ t = <<>>
    THEN << <<id, ErrLine("invalid-dm-format")>> >>
    ELSE IF ~MapHas(usernames, target)
    THEN << <<id, ErrLine("user-not-found")>> >>
    ELSE IF Len(t) > messageMaxLength
    THEN << <<id, ErrLine("invalid-message")>> >>
    ELSE << <<UsernameGet(usernames, target), DmOut(ClientGet(clients, id).username, Body(t))>> >>

DmChecksStep(targets, texts) ==
    \A id \in SocketIds, target \in targets, t \in texts :
        (Receives(id, DmLine(target, t)) /\ MapHas(clients, id))
        => sent' = DmExpected(id, target, t)

\* handleDirectMessage called for session id with any target and text, the
\* empty ones included, replies as the documented order says
DmHandlerOrder ==
    \A i \in 1..Len(clients), target \in {NameA, NameB, <<>>},
       t \in {TextHi, TextLong, <<>>} :
        \A id \in {clients[i].key} :
            handleDirectMessage(Registry(clients, usernames, <<>>), id,
                                target, t).sent
                = DmExpected(id, target, t)

NewlinesOf(line) == {k \in 1..Len(line) : line[k] = "\n"}

\* C23: every line a handler writes to a client has exactly one newline,
\* which is its last character.
OneNewlineAtEnd ==
    /\ \A k \in 1..Len(sent) : NewlinesOf(sent[k][2]) = {Len(sent[k][2])}
    /\ \A k \in 1..Len(calls) :
         calls[k].op = "write"
         => NewlinesOf(calls[k].line) = {Len(calls[k].line)}

\* the chunk "MSG h", newline, "i", newline of a logged-in session was
\* delivered as MSG a h and answered unknown-command for the line i
OneNewlineAtEndWitness ==
    \E id \in SocketIds :
        /\ ev = Event("data", id, MsgLine(<<"h">>) \o <<"\n", "i", "\n">>, NULL)
        /\ WrittenTo(sent, id) = <<MsgOut(NameA, <<"h">>),
                                   ErrLine("unknown-command")>>

\* ------------------------------------------------------------------------
\* C22
\* ------------------------------------------------------------------------

\* the logged-in sessions a write to which fails: the server has ended
\* their socket, or the socket has failed and its 'close' is pending
FailingRecipients == {r \in LoggedInIds(clients) : socket[r] # "open"}

BroadcastDespiteFailure ==
    \A id \in SocketIds :
        (FailingRecipients \ {id} # {} /\ MapHas(clients, id))
        => /\ \A u \in ValidNames :
                ( /\ Receives(id, LoginLine(u))
                  /\ IsUnauthenticated(clients, id)
                  /\ ~MapHas(usernames, u) )
                => /\ WrittenTo(sent', id) = <<OkLine>>
                   /\ \A r \in LoggedInIds(clients) :
                        WrittenTo(sent', r) = <<JoinedOut(u)>>
                   /\ ClientGet(clients', id).username = u
                   /\ UsernameGet(usernames', u) = id
           /\ (Receives(id, MsgLine(TextHi)) /\ IsLoggedIn(clients, id))
              => /\ \A r \in LoggedInIds(clients) :
                      WrittenTo(sent', r)
                          = <<MsgOut(ClientGet(clients, id).username, TextHi)>>
                 /\ clients' = clients
                 /\ usernames' = usernames
                 /\ socket[id] = "open" => socket'[id] = "open"

\* C22: when the write to one recipient of a broadcast fails, every other
\* recipient is still written to and the command ends as it does
\* otherwise: a LOGIN is answered OK and registers the name, a MSG reaches
\* the sender and every other logged-in session.
BroadcastSurvivesFailure == [][BroadcastDespiteFailure]_vars

\* a MSG was written first to a session whose socket had failed and then
\* to its sender
BroadcastSurvivesFailureWitness ==
    \E id \in SocketIds :
        /\ Received(id, MsgLine(TextHi))
        /\ Len(sent) = 2
        /\ sent[1][1] # id
        /\ socket[sent[1][1]] = "destroyed"
        /\ sent[2] = <<id, MsgOut(ClientGet(clients, id).username, TextHi)>>
        /\ socket[id] = "open"

\* ------------------------------------------------------------------------
\* C28
\* ------------------------------------------------------------------------

\* the last step was the teardown of session id as handleDisconnect does
\* it for a disconnect
TornDown(id) ==
    /\ ev.op = "close"
    /\ ev.id = id
    /\ ~MapHas(clients, id)
    /\ IF Truthy(ev.user)
       THEN /\ ~MapHas(usernames, ev.user)
            /\ ExactlyOnceToEach(sent, LoggedInIds(clients),
                                 DisconnectedOut(ev.user))
       ELSE sent = <<>>

\* C28: a session whose socket has failed, through a write to it that
\* failed or through an I/O error, is in the end torn down as a
\* disconnect is: it leaves both maps and, if it had a username, every
\* session still logged in is written INFO <username> disconnected.
FailedIsTornDown ==
    \A id \in SocketIds :
        (socket[id] = "destroyed" /\ MapHas(clients, id)) ~> TornDown(id)

\* a broadcast has written to a logged-in session whose socket the server
\* had ended, which destroyed the socket, the session being registered
\* still
FailedIsTornDownWitness ==
    \E id \in SocketIds :
        /\ ev.op = "data"
        /\ ev.id # id
        /\ WrittenTo(sent, id) # <<>>
        /\ socket[id] = "destroyed"
        /\ IsLoggedIn(clients, id)

\* ------------------------------------------------------------------------
\* C21
\* ------------------------------------------------------------------------

\* lemma of C21: after an I/O error on its socket a session is torn down
\* in the end as a disconnect tears it down
ErrorIsTornDown ==
    \A id \in SocketIds :
        (ev.op = "error" /\ ev.id = id /\ MapHas(clients, id)) ~> TornDown(id)

\* C21: after the idle timeout of a session has expired, or after an I/O
\* error on its socket, the session is torn down in the end as a
\* disconnect tears it down: it leaves both maps and its disconnect
\* notice, if it had a username, goes to the sessions still logged in.
TimeoutOrErrorIsTornDown ==
    \A id \in SocketIds :
        (ev.op \in {"timeout", "error"} /\ ev.id = id /\ MapHas(clients, id))
            ~> TornDown(id)

\* ------------------------------------------------------------------------
\* C30
\* ------------------------------------------------------------------------

\* the step in which the process exits: with status 0 when no connection
\* is left, and with status 1, from the timer, when one is
ExitStep ==
    ev'.op = "exit"
    => /\ server = "closing"
       /\ server' = "exited"
       /\ ev'.chunk = <<"0">> <=> \A id \in SocketIds : socket[id] = "closed"
       /\ ev'.chunk = <<"1">> <=> \E id \in SocketIds : socket[id] # "closed"

\* C30: once shutdown has been triggered the process terminates in the
\* end: with status 0 when every connection has gone, and otherwise with
\* status 1 from the timer, even if a client never closes its connection.
ShutdownTerminates ==
    /\ (server = "closing") ~> (server = "exited")
    /\ [][ExitStep]_vars

\* the process has exited with status 1 while a client, its socket ended
\* by the server, had not closed its connection
ShutdownTerminatesWitness ==
    /\ server = "exited"
    /\ ev.op = "exit"
    /\ ev.chunk = <<"1">>
    /\ \E id \in SocketIds : socket[id] = "ended" /\ MapHas(clients, id)

\* ------------------------------------------------------------------------
\* C31
\* ------------------------------------------------------------------------

BlankOrMalformedStep ==
    \A id \in SocketIds :
        MapHas(clients, id)
        => /\ \A line \in BlankLines :
                Receives(id, line)
                => /\ sent' = <<>>
                   /\ calls' = <<>>
                   /\ clients' = clients
                   /\ usernames' = usernames
                   /\ socket' = socket
                   /\ buffer' = buffer
           /\ \A line \in MalformedLines :
                Receives(id, line)
                => /\ sent' = << <<id, ErrLine("unknown-command")>> >>
                   /\ clients' = clients
                   /\ usernames' = usernames
                   /\ socket' = socket
                   /\ buffer' = buffer

EmptyBodyLines ==
    {MsgOut(u, <<>>) : u \in ValidNames} \cup {DmOut(u, <<>>) : u \in ValidNames}

\* C33: no MSG or DM line with an empty body is ever written: a text that
\* isValidMessage accepts is not empty once its control characters are
\* stripped.
BodyNeverEmpty ==
    \A k \in 1..Len(sent) : sent[k][2] \notin EmptyBodyLines

\* ------------------------------------------------------------------------
\* C32
\* ------------------------------------------------------------------------

\* the sessions whose socket the server has ended, by the idle timeout or
\* by shutdown, and whose 'close' has not been handled yet
EndedSessions == {id \in SocketIds : socket[id] = "ended" /\ MapHas(clients, id)}

AfterServerEnd ==
    \A id \in EndedSessions :
        /\ ev'.id # id => WrittenTo(sent', id) = <<>>
        /\ \A u \in {ClientGet(clients, id).username} :
             Truthy(u) => UsernameGet(usernames, u) = NoSocket

\* C32: once the server has ended the socket of a session, the handler of
\* no other session and no shutdown writes a line to that session any
\* more, and its username resolves to no session.
SilentAfterServerEnd == [][AfterServerEnd]_vars

====
